---- MODULE Spec2Model ----
(***************************************************************************)
(* The Netlify build plugin of src/index.ts: generateAbsolutePaths and the *)
(* two lifecycle hooks onPreBuild / onPostBuild, together with the         *)
(* collaborators they drive (utils.cache, utils.status, utils.build, the   *)
(* console and the disk that existsSync reads).                            *)
(*                                                                         *)
(* Strings are TLA+ strings; Len, \o, Head, Tail and SubSeq act on them    *)
(* character by character.                                                 *)
(***************************************************************************)
EXTENDS Integers, Sequences, FiniteSets, TLC

VARIABLES
    inputs,     \* NetlifyInputs handed to every hook of the build (the TOML configuration)
    disk,       \* what existsSync(paths.absolute.buildDir) answers right now
    pc,         \* where the hook in flight stands: "idle", "await_restore", "await_save"
    cur,        \* the hook invocation in flight: its resolved paths and everything it has emitted
    history     \* the invocations that have settled, oldest first

vars == <<inputs, disk, pc, cur, history>>

\* Number of hook invocations the orchestrator makes in one explored run.
MaxInvocations == 2

(***************************************************************************)
(* path.join of Node (posix), imported as joinPaths.                       *)
(***************************************************************************)
charAt(s, i) == SubSeq(s, i, i)

\* s.split("/")
RECURSIVE splitPath(_, _, _, _)
splitPath(s, i, seg, acc) ==
    IF i > Len(s) THEN Append(acc, seg)
    ELSE IF charAt(s, i) = "/" THEN splitPath(s, i + 1, "", Append(acc, seg))
    ELSE splitPath(s, i + 1, seg \o charAt(s, i), acc)

\* segs.join("/")
RECURSIVE joinSegments(_)
joinSegments(segs) ==
    IF Len(segs) = 0 THEN ""
    ELSE IF Len(segs) = 1 THEN Head(segs)
    ELSE Head(segs) \o "/" \o joinSegments(Tail(segs))

\* normalizeString: resolves "." and ".." segments and drops empty ones.
RECURSIVE normalizeSegments(_, _, _)
normalizeSegments(segs, res, allowAboveRoot) ==
    IF Len(segs) = 0 THEN res
    ELSE LET s == Head(segs)
             rest == Tail(segs)
         IN  IF Len(s) = 0 \/ s = "."
               THEN normalizeSegments(rest, res, allowAboveRoot)
             ELSE IF s = ".."
               THEN IF Len(res) > 0 /\ res[Len(res)] # ".."
                      THEN normalizeSegments(rest, SubSeq(res, 1, Len(res) - 1), allowAboveRoot)
                    ELSE IF allowAboveRoot
                      THEN normalizeSegments(rest, Append(res, ".."), allowAboveRoot)
                    ELSE normalizeSegments(rest, res, allowAboveRoot)
             ELSE normalizeSegments(rest, Append(res, s), allowAboveRoot)

normalizeString(path, allowAboveRoot) ==
    joinSegments(normalizeSegments(splitPath(path, 1, "", <<>>), <<>>, allowAboveRoot))

\* path.posix.normalize
normalize(path) ==
    IF Len(path) = 0 THEN "."
    ELSE LET isAbsolute == charAt(path, 1) = "/"
             trailingSeparator == charAt(path, Len(path)) = "/"
             body == normalizeString(path, ~isAbsolute)
         IN  IF Len(body) = 0
               THEN IF isAbsolute THEN "/"
                    ELSE IF trailingSeparator THEN "./" ELSE "."
             ELSE LET tailed == IF trailingSeparator THEN body \o "/" ELSE body
                  IN  IF isAbsolute THEN "/" \o tailed ELSE tailed

\* The non-empty arguments of path.join, separated by "/".
RECURSIVE joinArgs(_)
joinArgs(args) ==
    IF Len(args) = 0 THEN ""
    ELSE LET rest == joinArgs(Tail(args))
         IN  IF Len(Head(args)) = 0 THEN rest
             ELSE IF Len(rest) = 0 THEN Head(args)
             ELSE Head(args) \o "/" \o rest

joinPaths(args) ==
    LET joined == joinArgs(args)
    IN  IF Len(joined) = 0 THEN "." ELSE normalize(joined)

(***************************************************************************)
(* generateAbsolutePaths                                                   *)
(***************************************************************************)
\* Slip: the ".." segment forgotten, the manifest looked for inside the cache directory.
generateAbsolutePaths_insideCache(options) ==
    LET buildDirName == options.inputs.custom_build_dir_name
        buildDirPathFromProject == options.inputs.build_dir_path
        absoluteBuildDirPath == joinPaths(<<buildDirPathFromProject, buildDirName, "cache">>)
        manifestPath == joinPaths(<<absoluteBuildDirPath, "build-manifest.json">>)
    IN  [absolute |-> [buildDir |-> absoluteBuildDirPath, manifest |-> manifestPath],
         buildDirName |-> buildDirName]

generateAbsolutePaths(options) ==
    LET buildDirName == options.inputs.custom_build_dir_name
        buildDirPathFromProject == options.inputs.build_dir_path
        absoluteBuildDirPath == joinPaths(<<buildDirPathFromProject, buildDirName, "cache">>)
        manifestPath == joinPaths(<<absoluteBuildDirPath, "..", "build-manifest.json">>)
    IN  [absolute |-> [buildDir |-> absoluteBuildDirPath, manifest |-> manifestPath],
         buildDirName |-> buildDirName]

(***************************************************************************)
(* The configuration the plugin can be given.                              *)
(***************************************************************************)
BuildDirNames == {".next", "build", "", "../out"}

BuildDirPaths == {".", "frontend", "", "/srv/app"}

InputsSet == [custom_build_dir_name : BuildDirNames, build_dir_path : BuildDirPaths]

\* The hook invocation record before anything has been emitted.
newInvocation(hook, paths) ==
    [hook |-> hook, paths |-> paths,
     calls |-> <<>>,        \* utils.cache.restore / utils.cache.save calls
     console |-> <<>>,      \* console.log / console.error lines
     status |-> <<>>,       \* utils.status.show reports
     build |-> <<>>,        \* utils.build.failBuild / failPlugin / cancelBuild calls
     existed |-> "unread"]  \* what existsSync answered, once it has been asked

\* No hook is in flight.
NoInvocation ==
    newInvocation("none", [absolute |-> [buildDir |-> "", manifest |-> ""], buildDirName |-> ""])

consoleLog(inv, text) == [inv EXCEPT !.console = Append(@, [stream |-> "log", text |-> text])]

consoleError(inv, text) == [inv EXCEPT !.console = Append(@, [stream |-> "error", text |-> text])]

statusShow(inv, report) == [inv EXCEPT !.status = Append(@, report)]

\* console.log(`${buildDir} ${existsSync(buildDir) ? 'exists' : 'does not exist'} on disk`)
logExists(inv) ==
    consoleLog([inv EXCEPT !.existed = IF disk THEN "yes" ELSE "no"],
               inv.paths.absolute.buildDir \o " "
                   \o (IF disk THEN "exists" ELSE "does not exist") \o " on disk")

\* Slip: the manifest path handed to restore instead of the cache directory.
restoreCall_manifest(paths) ==
    [op |-> "restore", path |-> paths.absolute.manifest, digests |-> <<>>]

\* utils.cache.restore(paths.absolute.buildDir)
restoreCall(paths) ==
    [op |-> "restore", path |-> paths.absolute.buildDir, digests |-> <<>>]

\* Slip: save called without the digests option.
saveCall_noDigests(paths) ==
    [op |-> "save", path |-> paths.absolute.buildDir, digests |-> <<>>]

\* Slip: the whole build folder saved instead of its cache directory.
saveCall_buildFolder(paths) ==
    [op |-> "save", path |-> joinPaths(<<paths.absolute.buildDir, "..">>),
     digests |-> <<paths.absolute.manifest>>]

\* utils.cache.save(paths.absolute.buildDir, {digests: [paths.absolute.manifest]})
saveCall(paths) ==
    [op |-> "save", path |-> paths.absolute.buildDir, digests |-> <<paths.absolute.manifest>>]

\* Slip: the report leaves the location out and titles itself with the path.
restoreSucceeded_noLocation(inv) ==
    LET message == "Restored the cached " \o inv.paths.buildDirName \o " folder"
    IN  statusShow(consoleLog(inv, message),
                   [summary |-> "Restored the " \o inv.paths.absolute.buildDir \o " folder",
                    text |-> message])

\* onPreBuild, the branch taken when restore answered true.
restoreSucceeded(inv) ==
    LET message == "Restored the cached " \o inv.paths.buildDirName
                       \o " folder at the location " \o inv.paths.absolute.buildDir
    IN  statusShow(consoleLog(inv, message),
                   [summary |-> "Restored the " \o inv.paths.buildDirName \o " folder",
                    text |-> message])

\* Slip: a failed restore escalated to utils.build.failBuild.
restoreFailed_failBuild(inv) ==
    [inv EXCEPT !.build = Append(@, [op |-> "failBuild",
                                     message |-> "Couldn't restore the cache"])]

\* onPreBuild, the branch taken when restore answered false.
restoreFailed(inv) ==
    consoleError(inv, "Couldn't restore the cache for the " \o inv.paths.buildDirName
                          \o " folder at the location " \o inv.paths.absolute.buildDir)

\* Slip: the summary titled with the path instead of the folder name.
saveSucceeded_pathSummary(inv) ==
    LET message == "Cached the " \o inv.paths.buildDirName
                       \o " folder at the location " \o inv.paths.absolute.buildDir
    IN  statusShow(consoleLog(inv, message),
                   [summary |-> "Saved the " \o inv.paths.absolute.buildDir \o " folder",
                    text |-> message])

\* onPostBuild, the branch taken when save answered true.
saveSucceeded(inv) ==
    LET message == "Cached the " \o inv.paths.buildDirName
                       \o " folder at the location " \o inv.paths.absolute.buildDir
    IN  statusShow(consoleLog(inv, message),
                   [summary |-> "Saved the " \o inv.paths.buildDirName \o " folder",
                    text |-> message])

\* onPostBuild, the branch taken when save answered false.
saveFailed(inv) ==
    consoleError(inv, "Couldn't cache the " \o inv.paths.buildDirName
                          \o " folder at the location " \o inv.paths.absolute.buildDir)

\* The hook's promise settles: the invocation joins the history.
settle(inv, outcome, completion) ==
    /\ history' = Append(history,
                          [hook |-> inv.hook, paths |-> inv.paths, calls |-> inv.calls,
                           console |-> inv.console, status |-> inv.status,
                           build |-> inv.build, existed |-> inv.existed,
                           outcome |-> outcome,          \* "true", "false" or "rejected"
                           completion |-> completion])   \* "returned" or "threw"
    /\ cur' = NoInvocation
    /\ pc' = "idle"

Init ==
    /\ inputs \in InputsSet
    /\ disk \in BOOLEAN
    /\ pc = "idle"
    /\ cur = NoInvocation
    /\ history = <<>>

\* onPreBuild up to its await: resolve the paths, call utils.cache.restore.
onPreBuild_call ==
    /\ pc = "idle"
    /\ Len(history) < MaxInvocations
    /\ LET paths == generateAbsolutePaths([inputs |-> inputs])
           inv == newInvocation("onPreBuild", paths)
       IN  cur' = [inv EXCEPT !.calls = Append(@, restoreCall(paths))]
    /\ pc' = "await_restore"
    /\ UNCHANGED <<inputs, disk, history>>

\* Slip: the existence check steering the branch.
onPreBuild_resume_existsSteers(success) ==
    /\ pc = "await_restore"
    /\ LET logged == logExists(cur)
       IN  IF success /\ disk
             THEN settle(restoreSucceeded(logged), IF success THEN "true" ELSE "false", "returned")
             ELSE settle(restoreFailed(logged), IF success THEN "true" ELSE "false", "returned")
    /\ UNCHANGED <<inputs, disk>>

\* onPreBuild after its await, the promise of restore fulfilled with success.
onPreBuild_resume(success) ==
    /\ pc = "await_restore"
    /\ LET logged == logExists(cur)
       IN  IF success
             THEN settle(restoreSucceeded(logged), "true", "returned")
             ELSE settle(restoreFailed(logged), "false", "returned")
    /\ UNCHANGED <<inputs, disk>>

\* onPreBuild when the awaited restore rejects: nothing catches it.
onPreBuild_rejected ==
    /\ pc = "await_restore"
    /\ settle(cur, "rejected", "threw")
    /\ UNCHANGED <<inputs, disk>>

\* onPostBuild up to its await: resolve the paths, log the existence check,
\* call utils.cache.save.
onPostBuild_call ==
    /\ pc = "idle"
    /\ Len(history) < MaxInvocations
    /\ LET paths == generateAbsolutePaths([inputs |-> inputs])
           inv == logExists(newInvocation("onPostBuild", paths))
       IN  cur' = [inv EXCEPT !.calls = Append(@, saveCall(paths))]
    /\ pc' = "await_save"
    /\ UNCHANGED <<inputs, disk, history>>

\* onPostBuild after its await, the promise of save fulfilled with success.
onPostBuild_resume(success) ==
    /\ pc = "await_save"
    /\ IF success
         THEN settle(saveSucceeded(cur), "true", "returned")
         ELSE settle(saveFailed(cur), "false", "returned")
    /\ UNCHANGED <<inputs, disk>>

\* onPostBuild when the awaited save rejects: nothing catches it.
onPostBuild_rejected ==
    /\ pc = "await_save"
    /\ settle(cur, "rejected", "threw")
    /\ UNCHANGED <<inputs, disk>>

\* Anything outside the hooks (the build tool, the cache collaborator) creates
\* or removes the directory.
DiskChanges ==
    /\ disk' = ~disk
    /\ UNCHANGED <<inputs, pc, cur, history>>

Next ==
    \/ onPreBuild_call
    \/ \E success \in BOOLEAN : onPreBuild_resume(success)
    \/ onPreBuild_rejected
    \/ onPostBuild_call
    \/ \E success \in BOOLEAN : onPostBuild_resume(success)
    \/ onPostBuild_rejected
    \/ DiskChanges

Spec == Init /\ [][Next]_vars

(***************************************************************************)
(* Vocabulary of the properties.                                           *)
(***************************************************************************)
Settled == {history[k] : k \in DOMAIN history}

\* The paths the resolver yields for the configuration of this build.
Resolved == generateAbsolutePaths([inputs |-> inputs])

NumErrors(console) == Cardinality({k \in DOMAIN console : console[k].stream = "error"})

Contains(s, sub) == \E i \in 1..(Len(s) - Len(sub) + 1) : SubSeq(s, i, i + Len(sub) - 1) = sub

\* path.posix.dirname, the parent of a path.
RECURSIVE dirnameEnd(_, _, _)
dirnameEnd(path, j, matchedSlash) ==
    IF j < 2 THEN -1
    ELSE IF charAt(path, j) = "/"
      THEN IF ~matchedSlash THEN j - 1 ELSE dirnameEnd(path, j - 1, TRUE)
    ELSE dirnameEnd(path, j - 1, FALSE)

parentOf(path) ==
    IF Len(path) = 0 THEN "."
    ELSE LET hasRoot == charAt(path, 1) = "/"
             end == dirnameEnd(path, Len(path), TRUE)
         IN  IF end = -1 THEN (IF hasRoot THEN "/" ELSE ".")
             ELSE IF hasRoot /\ end = 1 THEN "//"
             ELSE SubSeq(path, 1, end)

\* Which of the two outcome reports an invocation emitted.
ReportBranch(r) ==
    IF Len(r.status) > 0 THEN "status"
    ELSE IF NumErrors(r.console) > 0 THEN "error"
    ELSE "none"

(***************************************************************************)
(* C1: one invocation of onPreBuild calls utils.cache.restore exactly      *)
(* once, whatever the collaborator answers (true, false or a rejection),   *)
(* with the buildDir that generateAbsolutePaths yields for the same        *)
(* inputs, and never calls utils.cache.save.                               *)
(***************************************************************************)
C1_RestoreCalledOnce ==
    /\ \A r \in Settled : r.hook = "onPreBuild" =>
          /\ Len(r.calls) = 1
          /\ r.calls[1].op = "restore"
          /\ r.calls[1].path = Resolved.absolute.buildDir
    /\ pc = "await_restore" =>
          /\ Len(cur.calls) = 1
          /\ cur.calls[1].op = "restore"
          /\ cur.calls[1].path = Resolved.absolute.buildDir

\* An onPreBuild whose restore answered false has settled, and one whose restore rejected.
C1_Witness ==
    /\ \E r \in Settled : r.hook = "onPreBuild" /\ r.outcome = "false"
    /\ \E r \in Settled : r.hook = "onPreBuild" /\ r.outcome = "rejected"

(***************************************************************************)
(* C2: one invocation of onPostBuild calls utils.cache.save exactly once,  *)
(* with the resolved buildDir as its path and the resolved manifest path   *)
(* among the digests of its options, and never calls utils.cache.restore.  *)
(***************************************************************************)
C2_SaveCalledOnce ==
    /\ \A r \in Settled : r.hook = "onPostBuild" =>
          /\ Len(r.calls) = 1
          /\ r.calls[1].op = "save"
          /\ r.calls[1].path = Resolved.absolute.buildDir
          /\ \E d \in DOMAIN r.calls[1].digests :
                r.calls[1].digests[d] = Resolved.absolute.manifest
    /\ pc = "await_save" =>
          /\ Len(cur.calls) = 1
          /\ cur.calls[1].op = "save"
          /\ cur.calls[1].path = Resolved.absolute.buildDir
          /\ \E d \in DOMAIN cur.calls[1].digests :
                cur.calls[1].digests[d] = Resolved.absolute.manifest

\* An onPostBuild whose save answered true has settled, and one whose save answered false.
C2_Witness ==
    /\ \E r \in Settled : r.hook = "onPostBuild" /\ r.outcome = "true"
    /\ \E r \in Settled : r.hook = "onPostBuild" /\ r.outcome = "false"

(***************************************************************************)
(* C3: when restore or save answers false the hook raises nothing: it      *)
(* writes one console.error line, returns normally and calls none of       *)
(* utils.build.failBuild, failPlugin, cancelBuild.                         *)
(***************************************************************************)
C3_FalseIsNotFatal ==
    \A r \in Settled : r.outcome = "false" =>
        /\ r.completion = "returned"
        /\ Len(r.build) = 0
        /\ NumErrors(r.console) = 1
        /\ r.console[Len(r.console)].stream = "error"

\* Both hooks have settled after the collaborator answered false.
C3_Witness ==
    /\ \E r \in Settled : r.hook = "onPreBuild" /\ r.outcome = "false"
    /\ \E r \in Settled : r.hook = "onPostBuild" /\ r.outcome = "false"

(***************************************************************************)
(* C4: utils.status.show is never invoked when the collaborator answered   *)
(* false; it is invoked exactly once, after the collaborator call, only    *)
(* when it answered true; and every hook invocation emits exactly one of   *)
(* the two outcome reports (status report or error line).                  *)
(***************************************************************************)
C4_ExactlyOneReport ==
    /\ pc # "idle" => Len(cur.status) = 0
    /\ \A r \in Settled :
          /\ r.outcome = "false" => Len(r.status) = 0
          /\ Len(r.status) > 0 => r.outcome = "true"
          /\ r.outcome = "true" => Len(r.status) = 1
          /\ Len(r.status) + NumErrors(r.console) = 1

(***************************************************************************)
(* C5, as claimed: when save answers true, onPostBuild shows a summary     *)
(* equal to "Cached the <buildDirName> folder".                            *)
(***************************************************************************)
C5_Claimed ==
    \A r \in Settled : (r.hook = "onPostBuild" /\ r.outcome = "true") =>
        /\ Len(r.status) = 1
        /\ r.status[1].summary = "Cached the " \o inputs.custom_build_dir_name \o " folder"

(***************************************************************************)
(* C5, amended: when save answers true, onPostBuild shows one report whose *)
(* summary is "Saved the <buildDirName> folder" and whose text is          *)
(* "Cached the <buildDirName> folder at the location <buildDir>".          *)
(***************************************************************************)
C5_SavedSummary ==
    \A r \in Settled : (r.hook = "onPostBuild" /\ r.outcome = "true") =>
        /\ Len(r.status) = 1
        /\ r.status[1].summary = "Saved the " \o inputs.custom_build_dir_name \o " folder"
        /\ r.status[1].text = "Cached the " \o inputs.custom_build_dir_name
                                  \o " folder at the location " \o Resolved.absolute.buildDir
        /\ inputs.custom_build_dir_name = ".next" =>
              r.status[1].summary = "Saved the .next folder"

\* An onPostBuild with the default folder name has settled after save answered true.
C5_Witness ==
    \E r \in Settled : /\ r.hook = "onPostBuild" /\ r.outcome = "true"
                       /\ inputs.custom_build_dir_name = ".next"

(***************************************************************************)
(* C6: when restore answers true, onPreBuild shows one report whose        *)
(* summary is "Restored the <buildDirName> folder" and whose text names    *)
(* both the folder name and the resolved buildDir.                         *)
(***************************************************************************)
C6_RestoredSummary ==
    \A r \in Settled : (r.hook = "onPreBuild" /\ r.outcome = "true") =>
        /\ Len(r.status) = 1
        /\ r.status[1].summary = "Restored the " \o inputs.custom_build_dir_name \o " folder"
        /\ inputs.custom_build_dir_name = ".next" =>
              r.status[1].summary = "Restored the .next folder"
        /\ Contains(r.status[1].text, inputs.custom_build_dir_name)
        /\ Contains(r.status[1].text, Resolved.absolute.buildDir)

\* An onPreBuild with the default folder name has settled after restore answered true.
C6_Witness ==
    \E r \in Settled : /\ r.hook = "onPreBuild" /\ r.outcome = "true"
                       /\ inputs.custom_build_dir_name = ".next"

(***************************************************************************)
(* C7: the paths a hook resolved, for inputs (n, p).                       *)
(***************************************************************************)
\* The paths of every hook invocation made so far.
ResolvedByHooks ==
    {r.paths : r \in Settled} \cup (IF pc = "idle" THEN {} ELSE {cur.paths})

\* buildDir = join(p, n, "cache"), manifest = join(parentOf(buildDir), "build-manifest.json"),
\* the sibling p/n/build-manifest.json of the cache directory.
C7_Composition(P) ==
    LET n == inputs.custom_build_dir_name
        p == inputs.build_dir_path
    IN  /\ P.buildDirName = n
        /\ P.absolute.buildDir = joinPaths(<<p, n, "cache">>)
        /\ P.absolute.manifest = joinPaths(<<parentOf(P.absolute.buildDir), "build-manifest.json">>)
        /\ P.absolute.manifest = joinPaths(<<p, n, "build-manifest.json">>)
        /\ (n = "build" /\ p = "frontend") => P.absolute.buildDir = "frontend/build/cache"

(***************************************************************************)
(* C7, as claimed: the composition above, and for (".next", ".") the       *)
(* paths ./.next/cache and ./.next/build-manifest.json.                    *)
(***************************************************************************)
C7_Claimed ==
    \A P \in ResolvedByHooks :
        /\ C7_Composition(P)
        /\ (inputs.custom_build_dir_name = ".next" /\ inputs.build_dir_path = ".") =>
              /\ P.absolute.buildDir = "./.next/cache"
              /\ P.absolute.manifest = "./.next/build-manifest.json"

(***************************************************************************)
(* C7, amended: the composition above, and for (".next", ".") the          *)
(* normalised paths .next/cache and .next/build-manifest.json (path.join   *)
(* drops the leading "./").                                                *)
(***************************************************************************)
C7_NormalisedPaths ==
    \A P \in ResolvedByHooks :
        /\ C7_Composition(P)
        /\ (inputs.custom_build_dir_name = ".next" /\ inputs.build_dir_path = ".") =>
              /\ P.absolute.buildDir = ".next/cache"
              /\ P.absolute.manifest = ".next/build-manifest.json"

\* A hook has resolved the paths of the default configuration (".next", ".").
C7_Witness ==
    /\ ResolvedByHooks # {}
    /\ inputs.custom_build_dir_name = ".next" /\ inputs.build_dir_path = "."

(***************************************************************************)
(* C8: the path onPreBuild hands to cache.restore equals the path          *)
(* onPostBuild hands to cache.save, whatever hooks ran before and whatever *)
(* the collaborator answered.                                              *)
(***************************************************************************)
C8_RestoreSaveAgree ==
    \A r \in Settled \cup (IF pc = "idle" THEN {} ELSE {cur}) :
        \A q \in Settled \cup (IF pc = "idle" THEN {} ELSE {cur}) :
            (r.hook = "onPreBuild" /\ q.hook = "onPostBuild") =>
                /\ Len(r.calls) = 1 /\ Len(q.calls) = 1
                /\ r.calls[1].path = q.calls[1].path

\* A restore that did not succeed was followed by a save.
C8_Witness ==
    \E i \in DOMAIN history : \E j \in DOMAIN history :
        /\ i < j
        /\ history[i].hook = "onPreBuild" /\ history[i].outcome # "true"
        /\ history[j].hook = "onPostBuild"

(***************************************************************************)
(* C9: a failure of the cache collaborator is never thrown upward: whether *)
(* the awaited call answers false or rejects, the hook returns normally    *)
(* and the failure ends up as a diagnostic error line.                     *)
(***************************************************************************)
C9_FailuresNeverThrown ==
    \A r \in Settled : r.outcome # "true" =>
        /\ r.completion = "returned"
        /\ NumErrors(r.console) >= 1

\* Invocations of one hook with one collaborator answer are alike in all but the
\* existence line they log.
C10_SameWhateverExists ==
    \A r \in Settled : \A q \in Settled :
        (r.hook = q.hook /\ r.outcome = q.outcome) =>
            /\ r.calls = q.calls
            /\ r.status = q.status
            /\ r.build = q.build
            /\ r.completion = q.completion
            /\ ReportBranch(r) = ReportBranch(q)
            /\ ReportBranch(r) = (IF r.outcome = "true" THEN "status"
                                  ELSE IF r.outcome = "false" THEN "error" ELSE "none")

\* A step taken by a hook (anything but the environment touching the disk).
C10_HookStep == pc' # pc \/ cur' # cur \/ history' # history

(***************************************************************************)
(* C10: the existence check is diagnostic only. Two invocations of the     *)
(* same hook with the same collaborator answer, whatever existsSync        *)
(* answered in each, make the same collaborator call and take the same     *)
(* reporting branch; and no step of a hook changes the disk.               *)
(***************************************************************************)
C10_ExistsIsDiagnostic ==
    /\ []C10_SameWhateverExists
    /\ [][C10_HookStep => disk' = disk]_vars

\* Two invocations of one hook got the same answer, one with the directory on
\* disk and one without.
C10_Witness ==
    \E r \in Settled : \E q \in Settled :
        /\ r.hook = q.hook /\ r.outcome = q.outcome
        /\ r.existed = "yes" /\ q.existed = "no"
        /\ r.outcome = "true"

====
